---- MODULE Spec2Model ----
(***************************************************************************)
(* nestcheck/data_processing.py: loading a PolyChord run.                  *)
(*                                                                         *)
(* Arrays are functions on 0..n-1, as numpy indexes them.  A logl is an    *)
(* integer (only the order and equality of logls are used); -inf is NegInf,*)
(* below every logl.  The birth column of the dead points file is stored   *)
(* as floats: a stored value is a pair [whole, half] standing for          *)
(* whole + half/2 (half is 0 or 1), so that the cast to int and the "all   *)
(* integers" assertion do what numpy does.                                 *)
(***************************************************************************)
EXTENDS Integers, Sequences, FiniteSets

\* ---------------------------------------------------------------- bounds
MaxLen == 4

MaxBirth == MaxLen + 1

\* ------------------------------------------------------------- constants
\* -2147483648 (-2^31), written so that no literal exceeds 2^31 - 1
FortranZero == -2147483647 - 1

\* np.nan in the float array of labels: no label yet (labels are >= 0)
NaN == -1

\* -np.inf: below every logl of the model
NegInf == -1000

NoError == "none"

\* --------------------------------------------------------------- helpers
Size(a) == Cardinality(DOMAIN a)

Empty == [i \in {} |-> 0]

Min(S) == CHOOSE x \in S : \A y \in S : x <= y

Max(S) == CHOOSE x \in S : \A y \in S : y <= x

Values(a) == {a[i] : i \in DOMAIN a}

\* np.where(a == v)[0]: the indexes holding v (numpy returns them ascending)
Where(a, v) == {i \in DOMAIN a : a[i] = v}

\* the elements of a finite set of integers, ascending (np.unique's order)
RECURSIVE Ascending(_)
Ascending(S) ==
    IF S = {} THEN <<>> ELSE <<Min(S)>> \o Ascending(S \ {Min(S)})

\* np.unique(a, return_counts=True): the count of value v
Count(a, v) == Cardinality(Where(a, v))

Sum(a) ==
    LET RECURSIVE Upto(_)
        Upto(k) == IF k < 0 THEN 0 ELSE a[k] + Upto(k - 1)
    IN  Upto(Size(a) - 1)

\* ------------------------------------------- threads_given_birth_order
\* every birth step, whatever its count
multi_birth_steps_all(birth_order) == Ascending(Values(birth_order))

\* unique[np.where(counts > 1)]

multi_birth_steps(birth_order) ==
    Ascending({v \in Values(birth_order) : Count(birth_order, v) > 1})

\* the while loop: label the points that replaced one another
RECURSIVE Walk(_, _, _)
Walk(birth_order, st, next_ind) ==
    IF next_ind = {} THEN st
    ELSE IF st.thread_labels[Min(next_ind)] # NaN
         THEN [st EXCEPT !.err = "already_assigned"]
         ELSE Walk(birth_order,
                   [st EXCEPT !.thread_labels[Min(next_ind)] = st.thread_num],
                   Where(birth_order, Min(next_ind) + 1))

\* StartThread with the replacing point looked up one contour too far
StartThread_skip(birth_order, st, start_ind) ==
    IF st.thread_labels[start_ind] # NaN
    THEN [st EXCEPT !.err = "already_assigned"]
    ELSE LET walked == Walk(birth_order,
                            [st EXCEPT !.thread_labels[start_ind] = st.thread_num],
                            Where(birth_order, start_ind + 2))
         IN  IF walked.err # NoError THEN walked
             ELSE [walked EXCEPT !.thread_num = walked.thread_num + 1]

\* the body of the inner for loop for one start_ind
StartThread(birth_order, st, start_ind) ==
    IF st.thread_labels[start_ind] # NaN
    THEN [st EXCEPT !.err = "already_assigned"]
    ELSE LET walked == Walk(birth_order,
                            [st EXCEPT !.thread_labels[start_ind] = st.thread_num],
                            Where(birth_order, start_ind + 1))
         IN  IF walked.err # NoError THEN walked
             ELSE [walked EXCEPT !.thread_num = walked.thread_num + 1]

\* unless nstep=0 the first point born on the contour (i=0) is skipped
StartsThread(i, nstep) == i # 0 \/ nstep = 0

\* the inner for loop over np.where(birth_order == step)[0], from position i
RECURSIVE ForStartInds(_, _, _, _, _)
ForStartInds(birth_order, st, inds, i, nstep) ==
    IF st.err # NoError \/ i >= Len(inds) THEN st
    ELSE ForStartInds(birth_order,
                      IF StartsThread(i, nstep)
                      THEN StartThread(birth_order, st, inds[i + 1])
                      ELSE st,
                      inds, i + 1, nstep)

\* the outer for loop over multi_birth_steps, from position nstep
RECURSIVE ForSteps(_, _, _, _)
ForSteps(birth_order, st, steps, nstep) ==
    IF st.err # NoError \/ nstep >= Len(steps) THEN st
    ELSE ForSteps(birth_order,
                  ForStartInds(birth_order, st,
                               Ascending(Where(birth_order, steps[nstep + 1])),
                               0, nstep),
                  steps, nstep + 1)

\* n_threads, from the counts of the multi birth steps
NThreads(birth_order) ==
    LET steps == multi_birth_steps(birth_order)
        RECURSIVE SumCounts(_)
        SumCounts(k) ==
            IF k = 0 THEN 0 ELSE Count(birth_order, steps[k]) + SumCounts(k - 1)
    IN  SumCounts(Len(steps)) - (Len(steps) - 1)

\* the function without the assertions after the loops
CheckLabels_dropped(birth_order, st) == st

\* the assertions after the loops: no label is NaN (so every label equals its
\* int cast), and the labels used are range(n_threads)

CheckLabels(birth_order, st) ==
    IF st.err # NoError THEN st
    ELSE IF \E i \in DOMAIN st.thread_labels : st.thread_labels[i] = NaN
         THEN [st EXCEPT !.err = "unassigned"]
    ELSE IF Values(st.thread_labels) # 0 .. (NThreads(birth_order) - 1)
         THEN [st EXCEPT !.err = "label_sequence"]
    ELSE st

\* threads_given_birth_order without its assertion that some birth is 0
threads_given_birth_order_noprior(birth_order) ==
    LET st0 == [thread_labels |-> [i \in DOMAIN birth_order |-> NaN],
                thread_num |-> 0, err |-> NoError]
    IN  IF \E i \in DOMAIN birth_order : birth_order[i] < 0
        THEN [st0 EXCEPT !.err = "negative_birth"]
        ELSE CheckLabels(birth_order,
                         ForSteps(birth_order, st0,
                                  multi_birth_steps(birth_order), 0))

threads_given_birth_order(birth_order) ==
    LET st0 == [thread_labels |-> [i \in DOMAIN birth_order |-> NaN],
                thread_num |-> 0, err |-> NoError]
    IN  IF \E i \in DOMAIN birth_order : birth_order[i] < 0
        THEN [st0 EXCEPT !.err = "negative_birth"]
        ELSE IF ~ \E i \in DOMAIN birth_order : birth_order[i] = 0
        THEN [st0 EXCEPT !.err = "no_prior_birth"]
        ELSE CheckLabels(birth_order,
                         ForSteps(birth_order, st0,
                                  multi_birth_steps(birth_order), 0))

\* ------------------------------------------ process_polychord_dead_points
\* a stored birth value cast by astype(int): truncation towards zero
astype_int(x) == IF x.whole < 0 /\ x.half = 1 THEN x.whole + 1 ELSE x.whole

\* np.array_equal(birth_contours, dead_points[:, 1]) for one entry
IsIntegral(x) == x.half = 0 /\ astype_int(x) = x.whole

\* np.argsort(dead_points[:, 0]): the raw row that lands at sorted position k
ArgSort(table) ==
    LET Rank(i) == Cardinality({j \in DOMAIN table :
                        \/ table[j].logl < table[i].logl
                        \/ table[j].logl = table[i].logl /\ j < i})
    IN  [k \in DOMAIN table |-> CHOOSE i \in DOMAIN table : Rank(i) = k]

SortByLogl(table) == [k \in DOMAIN table |-> table[ArgSort(table)[k]]]

\* number of repeated logl values
RepeatLogls(a) == Size(a) - Cardinality(Values(a))

\* inds[0] and inds[-1] of np.where(thread_labels == label)[0]
FirstInd(labels, label) == Min(Where(labels, label))

LastInd(labels, label) == Max(Where(labels, label))

ThreadBirth(births, labels, label) == births[FirstInd(labels, label)]

ThreadDeath(births, labels, label) == LastInd(labels, label) + 1

\* delta_nlive after the loop over unique_threads (n + 1 entries)
delta_nlive(births, labels) ==
    [k \in 0 .. Size(births) |->
        Cardinality({t \in Values(labels) : ThreadBirth(births, labels, t) = k})
        - Cardinality({t \in Values(labels) : ThreadDeath(births, labels, t) = k})]

\* the cumulative sum with its first entry dropped instead of its last
CumSumButFirst(delta) ==
    LET RECURSIVE Upto(_)
        Upto(k) == IF k < 0 THEN 0 ELSE delta[k] + Upto(k - 1)
    IN  [i \in 0 .. (Size(delta) - 2) |-> Upto(i + 1)]

\* np.cumsum(delta_nlive)[:-1]
CumSumButLast(delta) ==
    LET RECURSIVE Upto(_)
        Upto(k) == IF k < 0 THEN 0 ELSE delta[k] + Upto(k - 1)
    IN  [i \in 0 .. (Size(delta) - 2) |-> Upto(i)]

\* thread minimum taken from the thread's own first point
ThreadMin_self(logls, births, labels, label) ==
    IF ThreadBirth(births, labels, label) = 0 THEN NegInf
    ELSE logls[FirstInd(labels, label)]

\* thread_min_max[label, 0]
ThreadMin(logls, births, labels, label) ==
    IF ThreadBirth(births, labels, label) = 0 THEN NegInf
    ELSE logls[ThreadBirth(births, labels, label) - 1]

\* thread_min_max[label, 1]
ThreadMax(logls, births, labels, label) ==
    logls[ThreadDeath(births, labels, label) - 1]

\* ------------------------------------------------------------ check_ns_run
MandatoryKeys == {"logl", "nlive_array", "theta", "thread_labels", "thread_min_max"}

OptionalKeys == {"settings", "output", "birth_step"}

\* check_ns_run_threads without the test of the thread minimum
check_ns_run_threads_nomin(run) ==
    IF Values(run.thread_labels) # DOMAIN run.thread_min_max
    THEN "thread_label_range"
    ELSE IF ~ \E t \in DOMAIN run.thread_min_max : run.thread_min_max[t][1] = NegInf
    THEN "no_prior_thread"
    ELSE IF \E t \in Values(run.thread_labels) :
            run.thread_min_max[t][2] # run.logl[LastInd(run.thread_labels, t)]
    THEN "thread_bounds"
    ELSE NoError

\* check_ns_run_threads: the first assertion that fails, or NoError (labels are
\* integers here, so the dtype assertion holds)
check_ns_run_threads(run) ==
    IF Values(run.thread_labels) # DOMAIN run.thread_min_max
    THEN "thread_label_range"
    ELSE IF ~ \E t \in DOMAIN run.thread_min_max : run.thread_min_max[t][1] = NegInf
    THEN "no_prior_thread"
    ELSE IF \E t \in Values(run.thread_labels) :
            \/ ~ (run.thread_min_max[t][1] < run.logl[FirstInd(run.thread_labels, t)])
            \/ run.thread_min_max[t][2] # run.logl[LastInd(run.thread_labels, t)]
    THEN "thread_bounds"
    ELSE NoError

check_ns_run(run) ==
    IF ~ (MandatoryKeys \subseteq run.keys) THEN "missing_key"
    ELSE IF (run.keys \ MandatoryKeys) \ OptionalKeys # {} THEN "unexpected_key"
    ELSE IF \E i, j \in DOMAIN run.logl : i < j /\ run.logl[i] > run.logl[j]
    THEN "logl_order"
    ELSE IF RepeatLogls(run.logl) # 0 THEN "repeat_logl"
    ELSE check_ns_run_threads(run)

\* --------------------------------------------------- process_polychord_run
\* standard_nlive_array for a constant number nlive of live points
\* standard_nlive_array with the ramp written one position early
standard_nlive_array_early(n, nlive) ==
    [j \in 0 .. (n - 1) |->
        IF (n - 1 - j) \in 1 .. (nlive - 1) THEN n - 1 - j ELSE nlive]

standard_nlive_array(n, nlive) ==
    [j \in 0 .. (n - 1) |->
        IF (n - j) \in 1 .. (nlive - 1) THEN n - j ELSE nlive]

\* the info file: absent (OSError), or a dict with 'output' and 'settings'
\* (settings: nlives is truthy for dynamic runs; nlive the constant number of
\* live points) and possibly a further key
InfoFiles ==
    {[present |-> FALSE, extra |-> FALSE, nlives |-> FALSE, nlive |-> 0]}
    \cup {[present |-> TRUE, extra |-> x, nlives |-> TRUE, nlive |-> 0] :
            x \in BOOLEAN}
    \cup {[present |-> TRUE, extra |-> FALSE, nlives |-> FALSE, nlive |-> l] :
            l \in 1 .. MaxLen}

NoSettings == [nlives |-> TRUE, nlive |-> 0]

\* ------------------------------------------------------------------ inputs
\* stored birth values: the Fortran artifact, 0.5, and 0..MaxBirth
BirthStored ==
    {[whole |-> FortranZero, half |-> 0], [whole |-> 0, half |-> 1]}
    \cup {[whole |-> k, half |-> 0] : k \in 0 .. MaxBirth}

\* logl columns of n rows: in discard order, in reverse order, with a repeat
LoglColumns(n) ==
    { [i \in 0 .. (n - 1) |-> i + 1],
      [i \in 0 .. (n - 1) |-> n - i],
      [i \in 0 .. (n - 1) |-> IF i = 0 THEN 1 ELSE i] }

\* the table of n rows with logl column l and stored birth column b; theta
\* is one column, holding the row's number in the file
Table(n, l, b) ==
    [i \in 0 .. (n - 1) |-> [logl |-> l[i], birth |-> b[i], theta |-> i]]

\* ------------------------------------------------------------------- state
VARIABLES
    dead_points,     \* np.loadtxt(root + '_dead.txt')
    pc,              \* where process_polychord_run stands
    err,             \* the assertion or exception that ended it
    logl,            \* ns_run['logl']
    theta,           \* ns_run['theta']
    birth_contours,  \* birth_contours
    thread_labels,   \* ns_run['thread_labels'] (the local array, had
                     \* threads_given_birth_order raised)
    thread_num,      \* thread_num when threads_given_birth_order ended
    thread_min_max,  \* ns_run['thread_min_max']: label -> <<min, max>>
    nlive_array,     \* ns_run['nlive_array']
    settings,        \* ns_run['settings']
    run_keys         \* ns_run.keys()

vars == <<dead_points, pc, err, logl, theta, birth_contours, thread_labels,
          thread_num, thread_min_max, nlive_array, settings, run_keys>>

ns_run ==
    [keys |-> run_keys, logl |-> logl, theta |-> theta,
     thread_labels |-> thread_labels, thread_min_max |-> thread_min_max,
     nlive_array |-> nlive_array, settings |-> settings]

Init ==
    /\ \E n \in 1 .. MaxLen :
          \E l \in LoglColumns(n), b \in [0 .. (n - 1) -> BirthStored] :
             dead_points = Table(n, l, b)
    /\ pc = "loaded"
    /\ err = NoError
    /\ logl = Empty
    /\ theta = Empty
    /\ birth_contours = Empty
    /\ thread_labels = Empty
    /\ thread_num = 0
    /\ thread_min_max = Empty
    /\ nlive_array = Empty
    /\ settings = NoSettings
    /\ run_keys = {}

Fail(e) == pc' = "failed" /\ err' = e

\* process_polychord_dead_points, up to the birth contours
SortDeadPoints ==
    /\ pc = "loaded"
    /\ LET sorted == SortByLogl(dead_points)
           logls == [i \in DOMAIN sorted |-> sorted[i].logl]
       IN  IF RepeatLogls(logls) # 0
           THEN /\ Fail("repeat_logl")
                /\ UNCHANGED <<logl, theta, birth_contours, run_keys>>
           ELSE IF \E i \in DOMAIN sorted : ~ IsIntegral(sorted[i].birth)
           THEN /\ Fail("birth_not_integer")
                /\ UNCHANGED <<logl, theta, birth_contours, run_keys>>
           ELSE /\ logl' = logls
                /\ theta' = [i \in DOMAIN sorted |-> sorted[i].theta]
                /\ birth_contours' =
                       [i \in DOMAIN sorted |-> astype_int(sorted[i].birth)]
                /\ run_keys' = {"logl", "theta"}
                /\ pc' = "sorted"
                /\ err' = NoError
    /\ UNCHANGED <<dead_points, thread_labels, thread_num, thread_min_max,
                   nlive_array, settings>>

\* ns_run['thread_labels'] = threads_given_birth_order(birth_contours)
DecomposeThreads ==
    /\ pc = "sorted"
    /\ LET res == threads_given_birth_order(birth_contours)
       IN  /\ thread_labels' = res.thread_labels
           /\ thread_num' = res.thread_num
           /\ IF res.err # NoError
              THEN Fail(res.err) /\ UNCHANGED run_keys
              ELSE /\ pc' = "threaded"
                   /\ err' = NoError
                   /\ run_keys' = run_keys \cup {"thread_labels"}
    /\ UNCHANGED <<dead_points, logl, theta, birth_contours, thread_min_max,
                   nlive_array, settings>>

\* the rest of process_polychord_dead_points: nlive_array and thread_min_max
LiveCountAndRanges ==
    /\ pc = "threaded"
    /\ LET unique_threads == Values(thread_labels)
       IN  IF unique_threads # 0 .. (Cardinality(unique_threads) - 1)
           THEN /\ Fail("unique_threads")
                /\ UNCHANGED <<thread_min_max, nlive_array, run_keys>>
           ELSE IF \E t \in unique_threads :
                      ThreadBirth(birth_contours, thread_labels, t)
                          > Size(birth_contours)
           THEN /\ Fail("index_error")
                /\ UNCHANGED <<thread_min_max, nlive_array, run_keys>>
           ELSE /\ thread_min_max' =
                      [t \in unique_threads |->
                          << ThreadMin(logl, birth_contours, thread_labels, t),
                             ThreadMax(logl, birth_contours, thread_labels, t) >>]
                /\ nlive_array' =
                      CumSumButLast(delta_nlive(birth_contours, thread_labels))
                /\ run_keys' = run_keys \cup {"thread_min_max", "nlive_array"}
                /\ pc' = "processed"
                /\ err' = NoError
    /\ UNCHANGED <<dead_points, logl, theta, birth_contours, thread_labels,
                   thread_num, settings>>

\* info = iou.pickle_load(root + '_info') and the merge of its keys
LoadInfo ==
    /\ pc = "processed"
    /\ \E info \in InfoFiles :
          IF ~ info.present
          THEN /\ pc' = "validate"
               /\ err' = NoError
               /\ UNCHANGED <<settings, run_keys>>
          ELSE IF {"output", "settings"} \cap run_keys # {}
          THEN Fail("key_collision") /\ UNCHANGED <<settings, run_keys>>
          ELSE /\ settings' = [nlives |-> info.nlives, nlive |-> info.nlive]
               /\ run_keys' = run_keys \cup {"output", "settings"}
               /\ IF info.extra THEN Fail("info_keys")
                  ELSE pc' = "settings" /\ err' = NoError
    /\ UNCHANGED <<dead_points, logl, theta, birth_contours, thread_labels,
                   thread_num, thread_min_max, nlive_array>>

\* the tests based on the settings, for the standard ns case
SettingsCheck ==
    /\ pc = "settings"
    /\ IF settings.nlives THEN pc' = "validate" /\ err' = NoError
       ELSE IF Size(thread_min_max) # settings.nlive THEN Fail("nthread")
       ELSE IF nlive_array # standard_nlive_array(Size(logl), settings.nlive)
       THEN Fail("standard_nlive_array")
       ELSE pc' = "validate" /\ err' = NoError
    /\ UNCHANGED <<dead_points, logl, theta, birth_contours, thread_labels,
                   thread_num, thread_min_max, nlive_array, settings, run_keys>>

\* check_ns_run(ns_run); return ns_run
CheckNsRun ==
    /\ pc = "validate"
    /\ LET e == check_ns_run(ns_run)
       IN  IF e # NoError THEN Fail(e)
           ELSE pc' = "returned" /\ err' = NoError
    /\ UNCHANGED <<dead_points, logl, theta, birth_contours, thread_labels,
                   thread_num, thread_min_max, nlive_array, settings, run_keys>>

Next ==
    \/ SortDeadPoints
    \/ DecomposeThreads
    \/ LiveCountAndRanges
    \/ LoadInfo
    \/ SettingsCheck
    \/ CheckNsRun

Spec == Init /\ [][Next]_vars

\* ================================================================== claims
n_points == Size(birth_contours)

\* threads_given_birth_order has returned its labels
ThreadsReturned == "thread_labels" \in run_keys

\* process_polychord_dead_points has returned its run
RunBuilt == "nlive_array" \in run_keys

Threads == Values(thread_labels)

First(t) == Min({i \in DOMAIN thread_labels : thread_labels[i] = t})

Last(t) == Max({i \in DOMAIN thread_labels : thread_labels[i] = t})

RECURSIVE SumOver(_, _)
SumOver(S, f) ==
    IF S = {} THEN 0
    ELSE LET x == CHOOSE y \in S : TRUE IN f[x] + SumOver(S \ {x}, f)

\* every birth contour refers to a point discarded earlier
BirthsBeforeDeath == \A i \in DOMAIN birth_contours : birth_contours[i] <= i

WorkedScenario ==
    /\ DOMAIN dead_points = 0 .. 3
    /\ \A i \in 0 .. 3 : dead_points[i].logl = i + 1
    /\ [i \in 0 .. 3 |-> dead_points[i].birth] =
           [i \in 0 .. 3 |-> [whole |-> IF i < 2 THEN 0 ELSE i - 1, half |-> 0]]

C2_WorkedScenario ==
    WorkedScenario =>
        /\ ThreadsReturned =>
              thread_labels = [i \in 0 .. 3 |-> IF i \in {0, 2} THEN 0 ELSE 1]
        /\ RunBuilt =>
              /\ thread_min_max = [t \in 0 .. 1 |-> <<NegInf, t + 3>>]
              /\ nlive_array = [i \in 0 .. 3 |-> IF i = 3 THEN 1 ELSE 2]
        /\ pc = "failed" => err \in {"info_keys", "nthread", "standard_nlive_array"}

C2_Witness == WorkedScenario /\ pc = "returned" /\ settings.nlive = 2

\* C3 as stated: in every run built by process_polychord_dead_points from birth
\* contours in [0, n], each thread has min < logl[first] and max = logl[last]
C3_BoundConsistency_AsClaimed ==
    (RunBuilt /\ \A i \in DOMAIN birth_contours : birth_contours[i] \in 0 .. n_points) =>
        \A t \in Threads :
            /\ thread_min_max[t][1] < logl[First(t)]
            /\ thread_min_max[t][2] = logl[Last(t)]

\* C3 amended: in every such run each thread has max = logl[last], and has
\* min < logl[first] exactly when birth_contour[first] <= first
C3_BoundConsistency ==
    (RunBuilt /\ \A i \in DOMAIN birth_contours : birth_contours[i] \in 0 .. n_points) =>
        \A t \in Threads :
            /\ thread_min_max[t][2] = logl[Last(t)]
            /\ (thread_min_max[t][1] < logl[First(t)])
                   <=> (birth_contours[First(t)] <= First(t))

C3_Witness ==
    /\ RunBuilt
    /\ \E t \in Threads : birth_contours[First(t)] \in 1 .. First(t)
    /\ \E t \in Threads : thread_min_max[t][1] = NegInf

\* C4: in every run process_polychord_run returns, nlive_array[i] >= 1 for all i
C4_LiveCountPositive ==
    pc = "returned" => \A i \in DOMAIN nlive_array : nlive_array[i] >= 1

C4_Witness ==
    /\ pc = "returned"
    /\ n_points = 4
    /\ \E i \in DOMAIN nlive_array : nlive_array[i] = 1
    /\ \E i \in DOMAIN nlive_array : nlive_array[i] = 3

\* death time - birth time of thread t
Lifetime == [t \in Threads |-> (Last(t) + 1) - birth_contours[First(t)]]

\* C5 as stated: the sum over threads of (death - birth) is the number of points
C5_Conservation_AsClaimed ==
    RunBuilt => SumOver(Threads, Lifetime) = n_points

\* C5 amended: the sum over threads of (death - birth) is the sum of nlive_array
C5_Conservation ==
    RunBuilt => SumOver(Threads, Lifetime) = Sum(nlive_array)

C5_Witness ==
    /\ RunBuilt
    /\ Cardinality(Threads) = 2
    /\ SumOver(Threads, Lifetime) = 7
    /\ n_points = 4

\* C6: a table whose birth column holds no zero never gets past
\* threads_given_birth_order: no run is built, none is returned
NoZeroBirth ==
    \A i \in DOMAIN dead_points : dead_points[i].birth # [whole |-> 0, half |-> 0]

C6_NoPriorThread ==
    NoZeroBirth =>
        /\ pc \in {"loaded", "sorted", "failed"}
        /\ ~ ThreadsReturned
        /\ ~ RunBuilt

C6_Witness ==
    /\ NoZeroBirth
    /\ pc = "failed"
    /\ err = "no_prior_birth"
    /\ n_points = 3

\* C7: birth contours stored as -2147483648 are treated as 0: when the birth
\* contours with 0 in place of -2147483648 decompose into threads, processing
\* does not fail on them
Normalized(births) ==
    [i \in DOMAIN births |-> IF births[i] = FortranZero THEN 0 ELSE births[i]]

C7_SentinelTreatedAsZero ==
    ( /\ \E i \in DOMAIN birth_contours : birth_contours[i] = FortranZero
      /\ threads_given_birth_order(Normalized(birth_contours)).err = NoError )
    => ~ (pc = "failed" /\ err = "negative_birth")

\* C8 as stated: when threads_given_birth_order returns, the first point born at
\* contour p + 1 has the label of point p, and every other point born at a
\* contour k > 0 is the first point of a thread whose label is not that of k - 1
ChainRule ==
    /\ \A p \in DOMAIN birth_contours :
          Where(birth_contours, p + 1) # {} =>
              thread_labels[Min(Where(birth_contours, p + 1))] = thread_labels[p]
    /\ \A j \in DOMAIN birth_contours :
          LET k == birth_contours[j]
          IN  (k > 0 /\ j # Min(Where(birth_contours, k))) =>
                 /\ First(thread_labels[j]) = j
                 /\ (k - 1) \in DOMAIN thread_labels
                 /\ thread_labels[j] # thread_labels[k - 1]

OnePriorPoint == pc # "sorted" /\ Count(birth_contours, 0) = 1

PriorPoint == CHOOSE i \in DOMAIN birth_contours : birth_contours[i] = 0

\* C9 as stated (on arrays of birth contours in 0..n): with exactly one birth
\* contour 0 the call never returns, the point born from the prior is never
\* labelled, and the unassigned-point assertion is the one that fails
C9_SinglePrior_AsClaimed ==
    (OnePriorPoint /\ \A i \in DOMAIN birth_contours : birth_contours[i] \in 0 .. n_points) =>
        /\ pc = "failed"
        /\ ~ ThreadsReturned
        /\ thread_labels[PriorPoint] = NaN
        /\ err = "unassigned"

\* C9 amended: ... the call fails with the unassigned-point assertion when
\* 0 <= birth_contour[i] <= i for all i, and otherwise with that one, the
\* non-negativity one or an already-assigned one
C9_SinglePrior ==
    OnePriorPoint =>
        /\ pc = "failed"
        /\ ~ ThreadsReturned
        /\ thread_labels[PriorPoint] = NaN
        /\ err \in {"unassigned", "already_assigned", "negative_birth"}
        /\ (BirthsBeforeDeath /\ \A i \in DOMAIN birth_contours : birth_contours[i] >= 0)
               => err = "unassigned"

C9_Witness ==
    /\ OnePriorPoint
    /\ pc = "failed"
    /\ err = "unassigned"
    /\ birth_contours = [i \in 0 .. 2 |-> IF i = 0 THEN 0 ELSE 1]

\* the birth linkage of standard nested sampling with L live points
StandardLinkage(L) ==
    /\ L >= 2
    /\ n_points >= L
    /\ Count(birth_contours, 0) = L
    /\ \A k \in 1 .. (n_points - L) : Count(birth_contours, k) = 1
    /\ \A i \in DOMAIN birth_contours : birth_contours[i] \in 0 .. (n_points - L)
    /\ BirthsBeforeDeath

\* C10: with that linkage the run has L threads and nlive_array is L up to
\* position n - L and then L-1, ..., 1, and the settings check for nlive = L and
\* check_ns_run pass
C10_ConstantLive ==
    \A L \in 2 .. MaxLen :
        (StandardLinkage(L) /\ pc # "sorted") =>
            /\ pc = "failed" =>
                  \/ err = "info_keys"
                  \/ err \in {"nthread", "standard_nlive_array"} /\ settings.nlive # L
            /\ pc \in {"processed", "settings", "validate", "returned"} =>
                  /\ Size(thread_min_max) = L
                  /\ nlive_array = [i \in 0 .. (n_points - 1) |->
                                       IF i <= n_points - L THEN L ELSE n_points - i]

C10_Witness ==
    /\ StandardLinkage(2)
    /\ n_points = 4
    /\ pc = "returned"
    /\ ~ settings.nlives
    /\ settings.nlive = 2

====
